---------------------------- MODULE Spec2Model ----------------------------
(* Model of src/main.py: the task-line parser (parse_task_line), the file   *)
(* scanner (check_files), the temporal evaluator with delivery              *)
(* (process_tasks_for_time) and the catch-up scheduler (check_and_notify,   *)
(* scheduler).                                                              *)
(*                                                                          *)
(* A Python str is a sequence of one-character strings.  The three marker   *)
(* glyphs are single characters of the source; they are written here with   *)
(* the names CLOCK (U+23F0), HOURGLASS (U+23F3) and CALENDAR (U+1F4C5).     *)
(* None is the empty sequence wherever the source only distinguishes None   *)
(* from a non-empty string.                                                 *)
(* The host clock is an integer number of seconds since 2025-03-01 00:00:00 *)
(* local time; the model stays inside March 2025.                           *)
EXTENDS Integers, Sequences, FiniteSets, TLC

VARIABLES
    line,             \* parse_task_line: argument line
    parsed,           \* parse_task_line: returned value, NotParsed before the call
    clock,            \* datetime.now(): the whole seconds of the host clock
    clock_us,         \* datetime.now(): its microsecond field
    interval,         \* config['check_interval']
    default_time,     \* config['default_time']
    vault,            \* the configured files: sequence of [exists, inside, lines, fail_at]
    show_path_in_message,  \* config.get('show_path_in_message', True)
    last_check_time,  \* check_and_notify.last_check_time, NoTime while the attribute is unset
    last_check_us,    \* check_and_notify.last_check_time: its microsecond field
    pc,               \* position of the scheduler coroutine
    now,              \* check_and_notify: now, whole seconds
    now_us,           \* check_and_notify: now, its microsecond field
    next_check,       \* scheduler: next_check
    wake_at,          \* the instant at which the pending asyncio.sleep is due to return
    missed_checks,    \* check_and_notify: missed_checks (0 when no recovery pass)
    i,                \* check_and_notify: loop index i; missed_checks + 1 is the run for now
    check_time,       \* process_tasks_for_time: check_time
    tasks,            \* process_tasks_for_time: tasks
    k,                \* process_tasks_for_time: index of the task in the for loop
    ticks,            \* number of calls of check_and_notify so far
    evaluated,        \* history: reference instants of the pipeline runs begun in this tick
    past,             \* history: reference instants of the pipeline runs begun in earlier ticks
    sent,             \* history: messages accepted by bot.send_message, in order
    log,              \* history: one entry per task handled in the current pipeline run
    failures,         \* history: number of ticks that ended with an exception
    reply             \* show_scheduled_tasks: the last response built, and where the scheduler was

vars == <<line, parsed, clock, clock_us, interval, default_time, vault,
          show_path_in_message, last_check_time, last_check_us,
          pc, now, now_us, next_check, wake_at, missed_checks, i, check_time, tasks, k, ticks,
          evaluated, past, sent, log, failures, reply>>

----------------------------------------------------------------------------
(* Characters and strings                                                   *)

CLOCK == "CLOCK"
HOURGLASS == "HOURGLASS"
CALENDAR == "CALENDAR"

Glyphs == {CLOCK, HOURGLASS, CALENDAR}

\* The characters c with c.isspace(): what str.strip(), str.split() and \s of a str
\* pattern take as whitespace.  A character without an escape is written by its name
\* (VT is '\x0b', FS..US are '\x1c'..'\x1f', NEL is '\x85', NBSP is '\xa0') or by its
\* code point (U1680 is ' '); each name is one character of a line.
Whitespace ==
    {" ", "\t", "\n", "\r", "\f", "VT", "FS", "GS", "RS", "US", "NEL", "NBSP",
     "U1680", "U2000", "U2001", "U2002", "U2003", "U2004", "U2005", "U2006", "U2007",
     "U2008", "U2009", "U200A", "U2028", "U2029", "U202F", "U205F", "U3000"}

\* the characters of [0-9]
AsciiDigits == {"0", "1", "2", "3", "4", "5", "6", "7", "8", "9"}

\* the ARABIC-INDIC DIGITs ZERO..NINE, '٠'..'٩', written by their code point
ArabicIndicDigits ==
    {"U0660", "U0661", "U0662", "U0663", "U0664", "U0665", "U0666", "U0667", "U0668", "U0669"}

\* The characters matched by \d of a str pattern: the decimal digits of Unicode.  The
\* lines of the model hold the ASCII and the Arabic-Indic digits; the decimal digits of
\* the other scripts are treated by the code as the Arabic-Indic ones are.
Digits == AsciiDigits \cup ArabicIndicDigits

\* int(c) of a decimal digit
DigitVal(c) ==
    CASE c \in {"0", "U0660"} -> 0 [] c \in {"1", "U0661"} -> 1
      [] c \in {"2", "U0662"} -> 2 [] c \in {"3", "U0663"} -> 3
      [] c \in {"4", "U0664"} -> 4 [] c \in {"5", "U0665"} -> 5
      [] c \in {"6", "U0666"} -> 6 [] c \in {"7", "U0667"} -> 7
      [] c \in {"8", "U0668"} -> 8 [] c \in {"9", "U0669"} -> 9

Drop(s, n) == SubSeq(s, n + 1, Len(s))

Take(s, n) == SubSeq(s, 1, n)

RECURSIVE lstrip(_)
lstrip(s) ==
    IF s # <<>> /\ Head(s) \in Whitespace THEN lstrip(Tail(s)) ELSE s

RECURSIVE rstrip(_)
rstrip(s) ==
    IF s # <<>> /\ s[Len(s)] \in Whitespace THEN rstrip(Take(s, Len(s) - 1)) ELSE s

strip(s) == rstrip(lstrip(s))

StartsWith(s, p) == Len(s) >= Len(p) /\ Take(s, Len(p)) = p

\* s.split('#')[0]
RECURSIVE BeforeHash(_)
BeforeHash(s) ==
    IF s = <<>> \/ Head(s) = "#" THEN <<>> ELSE <<Head(s)>> \o BeforeHash(Tail(s))

\* s.split()[0] for an s that holds a non-whitespace character
RECURSIVE Word(_)
Word(s) ==
    IF s = <<>> \/ Head(s) \in Whitespace THEN <<>> ELSE <<Head(s)>> \o Word(Tail(s))

FirstToken(s) == Word(lstrip(s))

\* s.replace(v, '', 1)
RECURSIVE ReplaceFirst(_, _)
ReplaceFirst(s, v) ==
    IF StartsWith(s, v) THEN Drop(s, Len(v))
    ELSE IF s = <<>> THEN <<>>
    ELSE <<Head(s)>> \o ReplaceFirst(Tail(s), v)

\* JoinNonEmpty without the filter(None, ...) of line 83: ' '.join(xs)
RECURSIVE JoinAll(_)
JoinAll(xs) ==
    IF xs = <<>> THEN <<>>
    ELSE IF Len(xs) = 1 THEN Head(xs)
    ELSE Head(xs) \o <<" ">> \o JoinAll(Tail(xs))

\* ' '.join(filter(None, xs))
RECURSIVE JoinNonEmpty(_)
JoinNonEmpty(xs) ==
    IF xs = <<>> THEN <<>>
    ELSE LET rest == JoinNonEmpty(Tail(xs))
         IN  IF Head(xs) = <<>> THEN rest
             ELSE IF rest = <<>> THEN Head(xs)
             ELSE Head(xs) \o <<" ">> \o rest

----------------------------------------------------------------------------
(* parse_task_line                                                          *)

ChecklistPrefix == <<"-", " ", "[", " ", "]">>

\* re.match(r'^- \[ \]', line)
MatchesPrefix(s) == StartsWith(s, ChecklistPrefix)

\* re.sub(r'^- \[ \]\s*', '', line)
RemovePrefix(s) ==
    IF MatchesPrefix(s) THEN lstrip(Drop(s, Len(ChecklistPrefix))) ELSE s

\* index of the first glyph of s, 0 if there is none
RECURSIVE FirstGlyph(_, _)
FirstGlyph(s, n) ==
    IF n > Len(s) THEN 0
    ELSE IF s[n] \in Glyphs THEN n
    ELSE FirstGlyph(s, n + 1)

\* number of whitespace characters of s right before position n
RECURSIVE SpacesBefore(_, _)
SpacesBefore(s, n) ==
    IF n > 1 /\ s[n - 1] \in Whitespace THEN 1 + SpacesBefore(s, n - 1) ELSE 0

\* number of whitespace characters of s right after position n
RECURSIVE SpacesAfter(_, _)
SpacesAfter(s, n) ==
    IF n < Len(s) /\ s[n + 1] \in Whitespace THEN 1 + SpacesAfter(s, n + 1) ELSE 0

\* re.split(r'(\s*[glyphs]\s*)', content): text, delimiter, text, ..., text
RECURSIVE SplitMarkers(_)
SplitMarkers(s) ==
    LET g == FirstGlyph(s, 1)
    IN  IF g = 0 THEN <<s>>
        ELSE LET a == g - SpacesBefore(s, g)
                 b == g + SpacesAfter(s, g)
             IN  <<SubSeq(s, 1, a - 1), SubSeq(s, a, b)>> \o SplitMarkers(Drop(s, b))

\* re.match(r'^\s*[glyphs]\s*$', part)
IsMarker(part) ==
    LET t == strip(part) IN Len(t) = 1 /\ t[1] \in Glyphs

\* IsValueToken with the test of line 70 reduced to "if value": every token is captured
IsValueTokenAny(v) == v # <<>>

\* re.match(r'^[\d:-]+$', value)
IsValueToken(v) ==
    /\ v # <<>>
    /\ \A n \in 1..Len(v) : v[n] \in Digits \cup {":", "-"}

NoElements == [g \in Glyphs |-> <<>>]

\* MarkerLoop with elements.setdefault(emoji, value) for line 71: the first capture stays
RECURSIVE MarkerLoopFirstWins(_, _, _, _)
MarkerLoopFirstWins(parts, n, elements, task_text) ==
    IF n > Len(parts) THEN [elements |-> elements, task_text |-> task_text, raised |-> FALSE]
    ELSE IF IsMarker(parts[n]) THEN
        IF n + 1 <= Len(parts) THEN
            IF parts[n + 1] # <<>> /\ FirstToken(parts[n + 1]) = <<>> THEN
                [elements |-> elements, task_text |-> task_text, raised |-> TRUE]
            ELSE
                LET value == IF parts[n + 1] # <<>> THEN FirstToken(parts[n + 1]) ELSE <<>>
                    emoji == strip(parts[n])[1]
                IN  IF IsValueToken(value) THEN
                        MarkerLoopFirstWins(
                            [parts EXCEPT ![n + 1] = strip(ReplaceFirst(parts[n + 1], value))],
                            n + 1,
                            IF elements[emoji] = <<>>
                            THEN [elements EXCEPT ![emoji] = value]
                            ELSE elements,
                            task_text)
                    ELSE MarkerLoopFirstWins(parts, n + 1, elements, task_text)
        ELSE MarkerLoopFirstWins(parts, n + 1, elements, task_text)
    ELSE MarkerLoopFirstWins(parts, n + 1, elements, Append(task_text, strip(parts[n])))

\* the for loop over enumerate(parts); n is the 1-based index of the part
RECURSIVE MarkerLoop(_, _, _, _)
MarkerLoop(parts, n, elements, task_text) ==
    IF n > Len(parts) THEN [elements |-> elements, task_text |-> task_text, raised |-> FALSE]
    ELSE IF IsMarker(parts[n]) THEN
        IF n + 1 <= Len(parts) THEN
            IF parts[n + 1] # <<>> /\ FirstToken(parts[n + 1]) = <<>> THEN
                \* ''.split()[0] on a whitespace-only part: IndexError
                [elements |-> elements, task_text |-> task_text, raised |-> TRUE]
            ELSE
                LET value == IF parts[n + 1] # <<>> THEN FirstToken(parts[n + 1]) ELSE <<>>
                IN  IF IsValueToken(value) THEN
                        MarkerLoop(
                            [parts EXCEPT ![n + 1] = strip(ReplaceFirst(parts[n + 1], value))],
                            n + 1,
                            [elements EXCEPT ![strip(parts[n])[1]] = value],
                            task_text)
                    ELSE MarkerLoop(parts, n + 1, elements, task_text)
        ELSE MarkerLoop(parts, n + 1, elements, task_text)
    ELSE MarkerLoop(parts, n + 1, elements, Append(task_text, strip(parts[n])))

\* re.fullmatch(r'\d{1,2}:\d{2}', t)
is_valid_time(t) ==
    \/ /\ Len(t) = 4
       /\ t[1] \in Digits /\ t[2] = ":" /\ t[3] \in Digits /\ t[4] \in Digits
    \/ /\ Len(t) = 5
       /\ t[1] \in Digits /\ t[2] \in Digits /\ t[3] = ":"
       /\ t[4] \in Digits /\ t[5] \in Digits

\* length of the text matched by re.match(r'^(\d{1,2}:\d{2})(\s+|$)', s), 0 if no match;
\* the time is the match without its trailing whitespace
InlineMatchLen(s) ==
    LET try(n) ==
            IF Len(s) >= n /\ is_valid_time(Take(s, n))
            THEN IF Len(s) = n THEN n
                 ELSE IF s[n + 1] \in Whitespace THEN n + (Len(s) - n - Len(lstrip(Drop(s, n))))
                 ELSE 0
            ELSE 0
    IN  IF try(5) > 0 THEN try(5) ELSE try(4)

InlineTime(s) ==
    IF InlineMatchLen(s) = 0 THEN <<>> ELSE rstrip(Take(s, InlineMatchLen(s)))


IsLeap(y) == (y % 4 = 0 /\ y % 100 # 0) \/ y % 400 = 0

DaysInMonth(y, m) ==
    IF m = 2 THEN (IF IsLeap(y) THEN 29 ELSE 28)
    ELSE IF m \in {4, 6, 9, 11} THEN 30
    ELSE 31

NoDate == <<0, 0, 0>>

\* the number written by the digits of s
RECURSIVE Number(_)
Number(s) ==
    IF s = <<>> THEN 0 ELSE 10 * Number(Take(s, Len(s) - 1)) + DigitVal(s[Len(s)])

AllDigits(s) == \A n \in 1..Len(s) : s[n] \in Digits

\* index of the first c in s at or after position n, 0 if there is none
RECURSIVE IndexOf(_, _, _)
IndexOf(s, c, n) ==
    IF n > Len(s) THEN 0 ELSE IF s[n] = c THEN n ELSE IndexOf(s, c, n + 1)

\* the characters of [0-1], [0-3], [0-5], [1-2], [0-2] and [1-9]
Ascii(lo, hi) == {c \in AsciiDigits : DigitVal(c) >= lo /\ DigitVal(c) <= hi}

\* s is matched as a whole by the pattern of %H: 2[0-3]|[0-1]\d|\d
MatchesHour(s) ==
    \/ Len(s) = 2 /\ s[1] = "2" /\ s[2] \in Ascii(0, 3)
    \/ Len(s) = 2 /\ s[1] \in Ascii(0, 1) /\ s[2] \in Digits
    \/ Len(s) = 1 /\ s[1] \in Digits

\* s is matched as a whole by the pattern of %M: [0-5]\d|\d
MatchesMinute(s) ==
    \/ Len(s) = 2 /\ s[1] \in Ascii(0, 5) /\ s[2] \in Digits
    \/ Len(s) = 1 /\ s[1] \in Digits

\* s is matched as a whole by the pattern of %m: 1[0-2]|0[1-9]|[1-9]
MatchesMonth(s) ==
    \/ Len(s) = 2 /\ s[1] = "1" /\ s[2] \in Ascii(0, 2)
    \/ Len(s) = 2 /\ s[1] = "0" /\ s[2] \in Ascii(1, 9)
    \/ Len(s) = 1 /\ s[1] \in Ascii(1, 9)

\* s is matched as a whole by the pattern of %d: 3[0-1]|[1-2]\d|0[1-9]|[1-9]| [1-9]
MatchesDay(s) ==
    \/ Len(s) = 2 /\ s[1] = "3" /\ s[2] \in Ascii(0, 1)
    \/ Len(s) = 2 /\ s[1] \in Ascii(1, 2) /\ s[2] \in Digits
    \/ Len(s) = 2 /\ s[1] = "0" /\ s[2] \in Ascii(1, 9)
    \/ Len(s) = 1 /\ s[1] \in Ascii(1, 9)
    \/ Len(s) = 2 /\ s[1] = " " /\ s[2] \in Ascii(1, 9)

\* int(s) of a matched day: the space of ' [1-9]' is skipped
DayNumber(s) == IF s[1] = " " THEN Number(Tail(s)) ELSE Number(s)

\* datetime.strptime(d, '%Y-%m-%d').date() as <<year, month, day>>, NoDate for ValueError.
\* %Y is \d\d\d\d; the year 0 and a day the month does not have are rejected by datetime
strptime_date(d) ==
    LET h1 == IndexOf(d, "-", 1)
        h2 == IF h1 = 0 THEN 0 ELSE IndexOf(d, "-", h1 + 1)
        ys == SubSeq(d, 1, h1 - 1)
        ms == SubSeq(d, h1 + 1, h2 - 1)
        ds == SubSeq(d, h2 + 1, Len(d))
    IN  IF /\ h1 = 5 /\ h2 > 0
           /\ AllDigits(ys) /\ MatchesMonth(ms) /\ MatchesDay(ds)
           /\ Number(ys) >= 1
           /\ DayNumber(ds) <= DaysInMonth(Number(ys), Number(ms))
        THEN <<Number(ys), Number(ms), DayNumber(ds)>>
        ELSE NoDate

\* is_valid_date(d)
is_valid_date(d) == strptime_date(d) # NoDate

NoClockTime == -1

\* datetime.strptime(t, '%H:%M').time() as minutes since midnight, NoClockTime for
\* ValueError, and for TypeError when t is not a str
strptime_time(t) ==
    LET c  == IndexOf(t, ":", 1)
        hs == SubSeq(t, 1, c - 1)
        ms == SubSeq(t, c + 1, Len(t))
    IN  IF c > 0 /\ MatchesHour(hs) /\ MatchesMinute(ms)
        THEN 60 * Number(hs) + Number(ms)
        ELSE NoClockTime

DateGlyphs == {HOURGLASS, CALENDAR}

None == [kind |-> "None", task |-> <<>>, time |-> <<>>, dates |-> [g \in DateGlyphs |-> <<>>]]

Raised == [kind |-> "raise", task |-> <<>>, time |-> <<>>, dates |-> [g \in DateGlyphs |-> <<>>]]

\* A default_time that is not a str: load_config does not test the type of default_time,
\* and YAML 1.1 reads the plain scalar 10:30 as the integer 630 (08:00 stays a str).  It is
\* written as a sequence, so that it can stand where a time stands; its one element is
\* not a character of any line.
Int630 == <<"int 630">>

IsStr(t) == t # Int630

\* the TypeError of re.fullmatch(pattern, t) at line 87 for a t that is not a str
TypeError == <<"TypeError">>

\* final_time with the inline prefix tried before the clock value
final_time_inline_first(time_clock, time_start, dflt) ==
    IF time_start # <<>> /\ is_valid_time(time_start) THEN time_start
    ELSE IF time_clock # <<>> /\ is_valid_time(time_clock) THEN time_clock
    ELSE IF dflt # <<>> /\ ~IsStr(dflt) THEN TypeError
    ELSE dflt

\* the first t of [time_clock, time_start, default_time] with t and is_valid_time(t),
\* else default_time; is_valid_time raises TypeError when it is given a default_time
\* that is not a str
final_time(time_clock, time_start, dflt) ==
    IF time_clock # <<>> /\ is_valid_time(time_clock) THEN time_clock
    ELSE IF time_start # <<>> /\ is_valid_time(time_start) THEN time_start
    ELSE IF dflt # <<>> /\ ~IsStr(dflt) THEN TypeError
    ELSE dflt

\* the text before the '#', stripped
CleanLine(ln) == strip(BeforeHash(strip(ln)))

\* the result of the marker loop on the content of a checklist line
Captured(ln) == MarkerLoop(SplitMarkers(RemovePrefix(CleanLine(ln))), 1, NoElements, <<>>)

\* the valid_dates dictionary; a missing key is the empty string
valid_dates(elements) ==
    [g \in DateGlyphs |-> IF elements[g] # <<>> /\ is_valid_date(elements[g])
                          THEN elements[g] ELSE <<>>]

parse_task_line(ln, dflt) ==
    IF ~MatchesPrefix(CleanLine(ln)) THEN None
    ELSE LET m == Captured(ln)
         IN  IF m.raised THEN Raised
             ELSE LET first_part == m.task_text[1]
                      time_start == InlineTime(first_part)
                      task_text  == IF time_start # <<>>
                                    THEN [m.task_text EXCEPT
                                            ![1] = strip(Drop(first_part, InlineMatchLen(first_part)))]
                                    ELSE m.task_text
                      task_clean == JoinNonEmpty(task_text)
                      time       == final_time(m.elements[CLOCK], time_start, dflt)
                  IN  IF time = TypeError THEN Raised
                      ELSE IF task_clean = <<>> THEN None
                      ELSE [kind  |-> "record",
                            task  |-> task_clean,
                            time  |-> time,
                            dates |-> valid_dates(m.elements)]

----------------------------------------------------------------------------
(* check_files                                                              *)

\* A file of the vault is [exists, inside, lines, fail_at]: fail_at = 0 when the read
\* succeeds, n > 0 when reading raises at line n (n = 1: open() itself fails); inside is
\* FALSE for a file configured by an absolute path that is not under config['directory']
\* (directory / f is then f itself, line 122).

\* the for loop over enumerate(f, 1) of one file, from line n on, inside the try
RECURSIVE ReadLines(_, _, _, _)
ReadLines(f, file, n, dflt) ==
    IF n > Len(file.lines) \/ n = file.fail_at THEN <<>>
    ELSE LET task_data == parse_task_line(file.lines[n], dflt)
         IN  IF task_data.kind = "raise" THEN <<>>
             ELSE IF task_data.kind = "record"
             THEN <<[file |-> f, line |-> n, data |-> task_data]>> \o ReadLines(f, file, n + 1, dflt)
             ELSE ReadLines(f, file, n + 1, dflt)

\* ScanFiles with the continue of line 127 turned into a break
RECURSIVE ScanFilesStopAtMissing(_, _, _)
ScanFilesStopAtMissing(files, f, dflt) ==
    IF f > Len(files) THEN <<>>
    ELSE IF ~files[f].exists THEN <<>>
    ELSE ReadLines(f, files[f], 1, dflt) \o ScanFilesStopAtMissing(files, f + 1, dflt)

\* the for loop over files_to_scan, from file f on
RECURSIVE ScanFiles(_, _, _)
ScanFiles(files, f, dflt) ==
    IF f > Len(files) THEN <<>>
    ELSE IF ~files[f].exists THEN ScanFiles(files, f + 1, dflt)
    ELSE ReadLines(f, files[f], 1, dflt) \o ScanFiles(files, f + 1, dflt)

check_files(files, dflt) == ScanFiles(files, 1, dflt)

----------------------------------------------------------------------------
(* process_tasks_for_time: the evaluation of one task                       *)

SecondsPerMinute == 60

SecondsPerDay == 86400

\* check_time.date(); second 0 of the clock is 2025-03-01 00:00:00
DateOf(t) == <<2025, 3, 1 + (t \div SecondsPerDay)>>

\* check_time.time().replace(second=0, microsecond=0), minutes since midnight
TimeOf(t) == (t % SecondsPerDay) \div SecondsPerMinute

\* the calendar minute of an instant (date and hour:minute)
MinuteOf(t) == t \div SecondsPerMinute

\* Variant with the due date tested before the reminder date
VariantDueFirst(predate, postdate, current_date) ==
    IF postdate # <<>> /\ strptime_date(postdate) = current_date THEN "due"
    ELSE IF predate # <<>> /\ strptime_date(predate) = current_date THEN "pre"
    ELSE IF predate = <<>> /\ postdate = <<>> THEN "plain"
    ELSE "none"

\* the message chosen by the if/elif/elif of lines 160-170: "pre" (hourglass text),
\* "due" (calendar text), "plain" (clock text) or "none" (message stays None)
Variant(predate, postdate, current_date) ==
    IF predate # <<>> /\ strptime_date(predate) = current_date THEN "pre"
    ELSE IF postdate # <<>> /\ strptime_date(postdate) = current_date THEN "due"
    ELSE IF predate = <<>> /\ postdate = <<>> THEN "plain"
    ELSE "none"

\* lines 173-174 and 300-301: task['file'].relative_to(config['directory']) raises
\* ValueError for a file that is not under the directory
RelativeToRaises(task) == show_path_in_message /\ ~vault[task.file].inside

\* Evaluate with the final elif of line 169 turned into an else: a task dated for
\* another day gets the plain message
EvaluateElsePlain(task, t) ==
    LET data      == task.data
        task_time == strptime_time(data.time)
        v         == Variant(data.dates[HOURGLASS], data.dates[CALENDAR], DateOf(t))
    IN  IF task_time = NoClockTime THEN [outcome |-> "error", variant |-> "none"]
        ELSE IF task_time # TimeOf(t) THEN [outcome |-> "none", variant |-> "none"]
        ELSE IF RelativeToRaises(task)
             THEN [outcome |-> "error", variant |-> IF v = "none" THEN "plain" ELSE v]
        ELSE [outcome |-> "message", variant |-> IF v = "none" THEN "plain" ELSE v]

\* the body of the try for one task up to the send: "error" when it raises (strptime at
\* line 157, or relative_to at line 174 after the variant of the message is chosen),
\* "none" when no message is built, else "message"
Evaluate(task, t) ==
    LET data      == task.data
        predate   == data.dates[HOURGLASS]
        postdate  == data.dates[CALENDAR]
        task_time == strptime_time(data.time)
        v         == Variant(predate, postdate, DateOf(t))
    IN  IF task_time = NoClockTime THEN [outcome |-> "error", variant |-> "none"]
        ELSE IF task_time # TimeOf(t) THEN [outcome |-> "none", variant |-> "none"]
        ELSE IF v = "none" THEN [outcome |-> "none", variant |-> "none"]
        ELSE IF RelativeToRaises(task) THEN [outcome |-> "error", variant |-> v]
        ELSE [outcome |-> "message", variant |-> v]

\* no file line in a text
NoFile == 0

\* the text passed to bot.send_message; the file line is there when show_path_in_message
Message(task, v) ==
    [variant  |-> v,
     postdate |-> IF v = "pre" THEN task.data.dates[CALENDAR] ELSE <<>>,
     task     |-> task.data.task,
     file     |-> IF show_path_in_message THEN task.file ELSE NoFile]

----------------------------------------------------------------------------
(* check_and_notify and scheduler                                           *)

NoTime == -1

Backoff == 10

\* InitLastCheck with the first value two intervals back
InitLastCheckTwoBack(last, t, I) == IF last = NoTime THEN t - 2 * I ELSE last

\* line 195-196: the attribute is created on the first call
InitLastCheck(last, t, I) == IF last = NoTime THEN t - I ELSE last

\* datetime and timedelta count in microseconds
MicrosPerSecond == 1000000

\* line 200: (now - last_check_time).total_seconds(), counted in microseconds; the
\* instants are given by their whole seconds and their microsecond fields
TimeDiff(t, t_us, last, last_us) == (t - last) * MicrosPerSecond + (t_us - last_us)

\* 1.5 * check_interval seconds, in microseconds
Threshold(I) == I * (MicrosPerSecond + MicrosPerSecond \div 2)

\* lines 202-203: the number of recovery runs for a time_diff in microseconds, 0 when
\* time_diff <= 1.5 * check_interval
MissedChecks(time_diff, I) ==
    IF time_diff > Threshold(I) THEN time_diff \div (I * MicrosPerSecond) ELSE 0

\* ReferenceTime with the recovery runs in descending order
ReferenceTimeDescending(n, missed, last, t, I) ==
    IF n <= missed THEN last + I * (missed - n + 1) ELSE t

\* lines 207-216: the whole seconds of the reference instant of run n of a tick, n = missed + 1
\* being the run for now; a recovery instant has the microseconds of last_check_time
ReferenceTime(n, missed, last, t, I) ==
    IF n <= missed THEN last + I * n ELSE t

\* lines 226-230: the next xx:xx:01
NextCheck(t) ==
    IF t % SecondsPerMinute >= 1
    THEN (t - (t % SecondsPerMinute)) + 1 + SecondsPerMinute
    ELSE (t - (t % SecondsPerMinute)) + 1

Max(a, b) == IF a >= b THEN a ELSE b

\* an instant is <<whole seconds, microsecond field>>; the instant a is not before b
NotBefore(a, b) == a[1] > b[1] \/ (a[1] = b[1] /\ a[2] >= b[2])

\* the later of two instants
Latest(a, b) == IF NotBefore(a, b) THEN a ELSE b

\* the instant <<t, us>> plus the duration d = <<seconds, microseconds>>
Later(t, us, d) ==
    <<t + d[1] + ((us + d[2]) \div MicrosPerSecond), (us + d[2]) % MicrosPerSecond>>

----------------------------------------------------------------------------
(* Inputs                                                                   *)

\* '- [ ] Buy milk CLOCK 09:15 CALENDAR 2025-03-01'
LineBuyMilk == <<"-", " ", "[", " ", "]", " ", "B", "u", "y", " ", "m", "i", "l", "k", " ", CLOCK, " ", "0", "9", ":", "1", "5", " ", CALENDAR, " ", "2", "0", "2", "5", "-", "0", "3", "-", "0", "1">>

\* '- [ ] 10:30 Call Bob'
LineCallBob == <<"-", " ", "[", " ", "]", " ", "1", "0", ":", "3", "0", " ", "C", "a", "l", "l", " ", "B", "o", "b">>

\* '- [ ] Pay rent'
LinePayRent == <<"-", " ", "[", " ", "]", " ", "P", "a", "y", " ", "r", "e", "n", "t">>

\* '- [ ]Buy'
LineNoSpace == <<"-", " ", "[", " ", "]", "B", "u", "y">>

\* '- [ ] x CLOCK 25:99'
LineBadClock == <<"-", " ", "[", " ", "]", " ", "x", " ", CLOCK, " ", "2", "5", ":", "9", "9">>

\* '- [ ] a CLOCK soon'
LineSoon == <<"-", " ", "[", " ", "]", " ", "a", " ", CLOCK, " ", "s", "o", "o", "n">>

\* '- [ ] CLOCK 09:15'
LineOnlyMarker == <<"-", " ", "[", " ", "]", " ", CLOCK, " ", "0", "9", ":", "1", "5">>

\* '- [x] Buy milk CLOCK 09:15'
LineChecked == <<"-", " ", "[", "x", "]", " ", "B", "u", "y", " ", "m", "i", "l", "k", " ", CLOCK, " ", "0", "9", ":", "1", "5">>

\* '# - [ ] Buy'
LineHeading == <<"#", " ", "-", " ", "[", " ", "]", " ", "B", "u", "y">>

\* '  - [ ] 7:00  x HOURGLASS2025-03-02 CALENDAR 2025-03-05 y # c'
LineIndented == <<" ", " ", "-", " ", "[", " ", "]", " ", "7", ":", "0", "0", " ", " ", "x", " ", HOURGLASS, "2", "0", "2", "5", "-", "0", "3", "-", "0", "2", " ", CALENDAR, " ", "2", "0", "2", "5", "-", "0", "3", "-", "0", "5", " ", "y", " ", "#", " ", "c">>

\* '- [ ] a CLOCK 9:15 b CLOCK 10:30'
LineTwoClocks == <<"-", " ", "[", " ", "]", " ", "a", " ", CLOCK, " ", "9", ":", "1", "5", " ", "b", " ", CLOCK, " ", "1", "0", ":", "3", "0">>

\* '- [ ] 9:01 Call Bob'
LineCall901 == <<"-", " ", "[", " ", "]", " ", "9", ":", "0", "1", " ", "C", "a", "l", "l", " ", "B", "o", "b">>

\* '- [ ] c CLOCK 9:15 HOURGLASS 2025-03-02 CALENDAR 2025-03-05'
LinePre == <<"-", " ", "[", " ", "]", " ", "c", " ", CLOCK, " ", "9", ":", "1", "5", " ", HOURGLASS, " ", "2", "0", "2", "5", "-", "0", "3", "-", "0", "2", " ", CALENDAR, " ", "2", "0", "2", "5", "-", "0", "3", "-", "0", "5">>

\* '- [ ] d CLOCK 09:15 CALENDAR 2025-03-02'
LineDue == <<"-", " ", "[", " ", "]", " ", "d", " ", CLOCK, " ", "0", "9", ":", "1", "5", " ", CALENDAR, " ", "2", "0", "2", "5", "-", "0", "3", "-", "0", "2">>

\* '- [ ] e CLOCK 09:15 CALENDAR 2025-03-03'
LineDueNext == <<"-", " ", "[", " ", "]", " ", "e", " ", CLOCK, " ", "0", "9", ":", "1", "5", " ", CALENDAR, " ", "2", "0", "2", "5", "-", "0", "3", "-", "0", "3">>

\* '- [ ] f CLOCK 09:15 HOURGLASS 2025-03-02'
LinePreOnly == <<"-", " ", "[", " ", "]", " ", "f", " ", CLOCK, " ", "0", "9", ":", "1", "5", " ", HOURGLASS, " ", "2", "0", "2", "5", "-", "0", "3", "-", "0", "2">>

\* '- [ ] h CLOCK 09:15 HOURGLASS 2025-03-01 CALENDAR 2025-03-02'
LinePastPreDue == <<"-", " ", "[", " ", "]", " ", "h", " ", CLOCK, " ", "0", "9", ":", "1", "5", " ", HOURGLASS, " ", "2", "0", "2", "5", "-", "0", "3", "-", "0", "1", " ", CALENDAR, " ", "2", "0", "2", "5", "-", "0", "3", "-", "0", "2">>

\* '- [ ] j CLOCK 09:15 HOURGLASS 2025-03-02 CALENDAR 2025-03-02'
LineBothToday == <<"-", " ", "[", " ", "]", " ", "j", " ", CLOCK, " ", "0", "9", ":", "1", "5", " ", HOURGLASS, " ", "2", "0", "2", "5", "-", "0", "3", "-", "0", "2", " ", CALENDAR, " ", "2", "0", "2", "5", "-", "0", "3", "-", "0", "2">>

\* '- [ ] m CLOCK 09:15 HOURGLASS 2025-03-01 CALENDAR 2025-03-04'
LineOtherDays == <<"-", " ", "[", " ", "]", " ", "m", " ", CLOCK, " ", "0", "9", ":", "1", "5", " ", HOURGLASS, " ", "2", "0", "2", "5", "-", "0", "3", "-", "0", "1", " ", CALENDAR, " ", "2", "0", "2", "5", "-", "0", "3", "-", "0", "4">>

\* '- [ ] n'
LinePlain == <<"-", " ", "[", " ", "]", " ", "n">>

\* '08:00'
T0800 == <<"0", "8", ":", "0", "0">>

\* '09:03'
T0903 == <<"0", "9", ":", "0", "3">>

\* '09:15'
T0915 == <<"0", "9", ":", "1", "5">>

\* '8am'
T8am == <<"8", "a", "m">>

\* '9:15'
W915 == <<"9", ":", "1", "5">>

\* '10:30'
W1030 == <<"1", "0", ":", "3", "0">>

\* '2025-03-01'
WDate == <<"2", "0", "2", "5", "-", "0", "3", "-", "0", "1">>

\* 'Buy'
WBuy == <<"B", "u", "y">>

\* '- [ ] '
PrefixSpace == <<"-", " ", "[", " ", "]", " ">>

\* '- [x] '
PrefixChecked == <<"-", " ", "[", "x", "]", " ">>

MaxWords == 4

MaxLines == 2

MaxTicks == 2

Words == {<<CLOCK>>, <<CALENDAR>>, W915, W1030, WDate, WBuy, <<"#">>}

Prefixes == {PrefixSpace, ChecklistPrefix, PrefixChecked, <<>>}

RECURSIVE JoinWords(_)
JoinWords(ws) ==
    IF ws = <<>> THEN <<>>
    ELSE IF Len(ws) = 1 THEN ws[1]
    ELSE ws[1] \o <<" ">> \o JoinWords(Tail(ws))

\* '- [ ] Buy CLOCK 9:15 CLOCK 2025-03-01'
LineClockThenDate == PrefixSpace \o JoinWords(<<WBuy, <<CLOCK>>, W915, <<CLOCK>>, WDate>>)

\* '- [ ] Buy CALENDAR 9:15 CALENDAR 2025-03-01'
LineDueTwice == PrefixSpace \o JoinWords(<<WBuy, <<CALENDAR>>, W915, <<CALENDAR>>, WDate>>)

\* '- [ ] Buy CALENDAR 2025-03-01 CALENDAR 9:15'
LineDueThenTime == PrefixSpace \o JoinWords(<<WBuy, <<CALENDAR>>, WDate, <<CALENDAR>>, W915>>)

\* '- [ ] Buy CLOCK 9:15\r'
LineCarriageReturn == PrefixSpace \o JoinWords(<<WBuy, <<CLOCK>>, W915>>) \o <<"\r">>

\* '- [ ] Buy CLOCK\xa09:15'
LineNbsp == PrefixSpace \o JoinWords(<<WBuy, <<CLOCK>>>>) \o <<"NBSP">> \o W915

\* '\x0b- [ ] Buy\x85milk'
LineVerticalTab == <<"VT">> \o PrefixSpace \o WBuy \o <<"NEL", "m", "i", "l", "k">>

\* '- [ ] a CLOCK ' and the Arabic-Indic digits of 12:34
LineArabicClock ==
    PrefixSpace \o <<"a", " ", CLOCK, " ", "U0661", "U0662", ":", "U0663", "U0664">>

\* '- [ ] ' and the Arabic-Indic digits of 7:05, then ' a CALENDAR 2025-03-1' and the
\* Arabic-Indic digit 5
LineArabicDate ==
    PrefixSpace \o <<"U0667", ":", "U0660", "U0665", " ", "a", " ", CALENDAR, " ",
                     "2", "0", "2", "5", "-", "0", "3", "-", "1", "U0665">>

ExampleLines ==
    {LineBuyMilk, LineCallBob, LinePayRent, LineNoSpace, LineBadClock, LineSoon,
     LineOnlyMarker, LineChecked, LineHeading, LineIndented, LineTwoClocks,
     LineClockThenDate, LineDueTwice, LineDueThenTime, LineCarriageReturn, LineNbsp,
     LineVerticalTab, LineArabicClock, LineArabicDate}

ParseLines ==
    {p \o JoinWords(ws) : p \in Prefixes, ws \in UNION {[1..n -> Words] : n \in 0..MaxWords}}
        \cup ExampleLines

ParseDefaults == {T0800, T8am, Int630}

EvalLines ==
    {LinePlain, LineCallBob, LinePre, LineDue, LineDueNext, LinePreOnly, LineBadClock,
     LinePastPreDue, LineBothToday, LineOtherDays}

EvalDefaults == {T0915, T8am}

At(day, h, m, sec) == day * SecondsPerDay + h * 3600 + m * SecondsPerMinute + sec

EvalInstants == {At(1, 9, 15, 30), At(2, 9, 15, 0), At(1, 10, 30, 59)}

File(ls) == [exists |-> TRUE, inside |-> TRUE, lines |-> ls, fail_at |-> 0]

\* a file configured by an absolute path outside the directory
FileOutside(ls) == [exists |-> TRUE, inside |-> FALSE, lines |-> ls, fail_at |-> 0]

EvalVaults ==
    {<<f>> : f \in UNION {{File(ls), FileOutside(ls)} :
                              ls \in UNION {[1..n -> EvalLines] : n \in 1..MaxLines}}}

MaxFiles == 3

\* a file with records on lines 1 and 3
FileShopping == File(<<LineBuyMilk, LineHeading, LineCallBob>>)

FileRent == File(<<LinePayRent>>)

\* a configured file that is not in the directory
FileMissing == [exists |-> FALSE, inside |-> TRUE, lines |-> <<>>, fail_at |-> 0]

\* a file whose third line cannot be read (for instance bytes that are not UTF-8)
FileTruncated ==
    [exists |-> TRUE, inside |-> TRUE, lines |-> <<LineCallBob, LineBuyMilk, LinePayRent>>,
     fail_at |-> 3]

\* a file that open() refuses
FileUnreadable == [exists |-> TRUE, inside |-> TRUE, lines |-> <<LinePayRent>>, fail_at |-> 1]

ScanFileChoices == {FileShopping, FileRent, FileMissing, FileTruncated, FileUnreadable}

\* the configured file lists: config['files'] resolved against the directory
ScanVaults == UNION {[1..n -> ScanFileChoices] : n \in 1..MaxFiles}

SchedVault == <<File(<<LinePayRent, LineBadClock, LineCall901>>)>>

\* a vault with two tasks for the same minute
\* SchedVault configured by an absolute path outside the directory
OutsideVault == <<FileOutside(<<LinePayRent, LineBadClock, LineCall901>>)>>

\* two tasks for the same minute in a file outside the directory
TwoCallsVault == <<FileOutside(<<LineCall901, LineCall901>>)>>

\* <<start of the process, vault, show_path_in_message>> of the runs in which queries
\* are handled
QueryRuns ==
    {<<At(0, 9, 0, 0), 400000, SchedVault, TRUE>>,
     <<At(0, 9, 0, 59), 600, OutsideVault, TRUE>>,
     <<At(0, 9, 0, 59), 600, TwoCallsVault, FALSE>>}

DeliverVault == <<File(<<LineCall901, LinePayRent, LinePayRent>>)>>

\* <<whole seconds, microseconds>> of the clock when the process starts
StartInstants ==
    {<<At(0, 9, 0, 0), 400000>>, <<At(0, 9, 0, 1), 600>>, <<At(0, 9, 0, 1), 400000>>,
     <<At(0, 9, 0, 59), 600>>}

\* the starts of the runs in which deliveries are followed: the second tick is late, or
\* follows the first at once
DeliverStarts == {<<At(0, 9, 0, 1), 400000>>, <<At(0, 9, 1, 0), 400000>>}

Intervals == {30, 60, 120}

\* <<seconds, microseconds>> by which a sleep returns after its deadline: the wake-up
\* of the event loop, or a process that was suspended or delayed
Overshoots == {<<0, 600>>, <<125, 400000>>}

\* whole seconds that pass between the clock reading of scheduler line 225 and the one
\* of check_and_notify line 192
ReadGaps == {0, 1}

\* instants at which a query arrives, besides the instant the scheduler was suspended
QueryTimes == {<<At(0, 9, 1, 0), 0>>, <<At(0, 9, 1, 0), 1>>}

\* seconds a bot.send_message takes
SendDurations == {1}

\* no query has been answered yet
NoReply == [tick |-> 0, at |-> "none", outcome |-> "none", today |-> <<>>]

NotParsed == [kind |-> "pending", task |-> <<>>, time |-> <<>>, dates |-> [g \in DateGlyphs |-> <<>>]]

----------------------------------------------------------------------------
(* Actions.  The scheduler coroutine is at one of:                          *)
(*   "loop"      top of the while True of scheduler (line 225)              *)
(*   "pipeline"  about to call process_tasks_for_time (line 212 or 216)     *)
(*   "tasks"     in the for loop over tasks (line 149)                      *)
(*   "send"      awaiting bot.send_message (line 178)                       *)
(*   "sleep"     awaiting asyncio.sleep(sleep_duration) (line 236)          *)
(*   "except"    in the except branch, awaiting asyncio.sleep(10) (line 240)*)
(* and a call of parse_task_line on its own at "parse", then "parsed".      *)

parserVars == <<line, parsed>>

configVars == <<interval, default_time, vault, show_path_in_message>>

tickVars == <<now, now_us, next_check, missed_checks, i>>

\* parse_task_line(line, default_time)
ParseLine ==
    /\ pc = "parse"
    /\ parsed' = parse_task_line(line, default_time)
    /\ pc' = "parsed"
    /\ UNCHANGED <<line, clock, clock_us, configVars, last_check_time, last_check_us, tickVars,
                   check_time, tasks, k, ticks, evaluated, past, sent, log, failures, wake_at, reply>>

\* scheduler lines 225-232 and check_and_notify lines 192-204: next_check is computed
\* from the clock reading of line 225, now is the later reading of line 192
TickStart ==
    /\ pc = "loop"
    /\ ticks < MaxTicks
    /\ ticks' = ticks + 1
    /\ next_check' = NextCheck(clock)
    /\ \E gap \in ReadGaps : clock' = clock + gap
    /\ now' = clock'
    /\ now_us' = clock_us
    /\ last_check_time' = InitLastCheck(last_check_time, now', interval)
    /\ last_check_us' = (IF last_check_time = NoTime THEN now_us' ELSE last_check_us)
    /\ missed_checks' = MissedChecks(TimeDiff(now', now_us', last_check_time', last_check_us'),
                                     interval)
    /\ i' = 1
    /\ past' = past \cup {evaluated[n] : n \in 1..Len(evaluated)}
    /\ evaluated' = <<>>
    /\ pc' = "pipeline"
    /\ UNCHANGED <<parserVars, clock_us, configVars, check_time, tasks, k, sent, log,
                   failures, wake_at, reply>>

Reverse(s) == [n \in 1..Len(s) |-> s[Len(s) + 1 - n]]

\* ScanOk with the tasks of the scan taken in reverse order
ScanOkReversed ==
    /\ pc = "pipeline"
    /\ check_time' = ReferenceTime(i, missed_checks, last_check_time, now, interval)
    /\ evaluated' = Append(evaluated,
                           ReferenceTime(i, missed_checks, last_check_time, now, interval))
    /\ tasks' = Reverse(check_files(vault, default_time))
    /\ k' = 1
    /\ log' = <<>>
    /\ pc' = "tasks"
    /\ UNCHANGED <<parserVars, clock, clock_us, configVars, last_check_time, last_check_us,
                   tickVars, ticks, past, sent, failures, wake_at, reply>>

\* process_tasks_for_time lines 145-147: the scan returns
ScanOk ==
    /\ pc = "pipeline"
    /\ check_time' = ReferenceTime(i, missed_checks, last_check_time, now, interval)
    /\ evaluated' = Append(evaluated,
                           ReferenceTime(i, missed_checks, last_check_time, now, interval))
    /\ tasks' = check_files(vault, default_time)
    /\ k' = 1
    /\ log' = <<>>
    /\ pc' = "tasks"
    /\ UNCHANGED <<parserVars, clock, clock_us, configVars, last_check_time, last_check_us,
                   tickVars, ticks, past, sent, failures, wake_at, reply>>

\* process_tasks_for_time line 145: check_files raises outside its per-file try
\* (lines 116-127); the exception leaves check_and_notify and reaches line 238, where
\* asyncio.sleep(10) is due to return 10 seconds later
ScanRaise ==
    /\ pc = "pipeline"
    /\ check_time' = ReferenceTime(i, missed_checks, last_check_time, now, interval)
    /\ evaluated' = Append(evaluated,
                           ReferenceTime(i, missed_checks, last_check_time, now, interval))
    /\ failures' = failures + 1
    /\ wake_at' = <<clock + Backoff, clock_us>>
    /\ pc' = "except"
    /\ UNCHANGED <<parserVars, clock, clock_us, configVars, last_check_time, last_check_us,
                   tickVars, ticks, tasks, k, past, sent, log, reply>>

\* EvalTask with the try around the for loop instead of inside it: the first task
\* that raises ends the run
EvalTaskErrorEndsRun ==
    /\ pc = "tasks"
    /\ k <= Len(tasks)
    /\ LET r == Evaluate(tasks[k], check_time)
       IN  IF r.outcome = "message"
           THEN /\ pc' = "send"
                /\ UNCHANGED <<k, log, reply>>
           ELSE /\ pc' = "tasks"
                /\ k' = IF r.outcome = "error" THEN Len(tasks) + 1 ELSE k + 1
                /\ log' = Append(log, [task |-> k, outcome |-> r.outcome, variant |-> r.variant])
    /\ UNCHANGED <<parserVars, clock, clock_us, configVars, last_check_time, last_check_us,
                   tickVars, check_time, tasks, ticks, evaluated, past, sent, failures, wake_at, reply>>

\* process_tasks_for_time lines 149-177 and 186-187 for task k
EvalTask ==
    /\ pc = "tasks"
    /\ k <= Len(tasks)
    /\ LET r == Evaluate(tasks[k], check_time)
       IN  IF r.outcome = "message"
           THEN /\ pc' = "send"
                /\ UNCHANGED <<k, log, reply>>
           ELSE /\ pc' = "tasks"
                /\ k' = k + 1
                /\ log' = Append(log, [task |-> k, outcome |-> r.outcome, variant |-> r.variant])
    /\ UNCHANGED <<parserVars, clock, clock_us, configVars, last_check_time, last_check_us,
                   tickVars, check_time, tasks, ticks, evaluated, past, sent, failures, wake_at, reply>>

\* lines 178-184: bot.send_message returns
SendOk ==
    /\ pc = "send"
    /\ \E d \in SendDurations : clock' = clock + d
    /\ LET v == Evaluate(tasks[k], check_time).variant
       IN  /\ sent' = Append(sent, [message |-> Message(tasks[k], v), file |-> tasks[k].file,
                                    line |-> tasks[k].line, at |-> check_time,
                                    tick |-> ticks, run |-> i])
           /\ log' = Append(log, [task |-> k, outcome |-> "sent", variant |-> v])
    /\ k' = k + 1
    /\ pc' = "tasks"
    /\ UNCHANGED <<parserVars, clock_us, configVars, last_check_time, last_check_us, tickVars,
                   check_time, tasks, ticks, evaluated, past, failures, wake_at, reply>>

\* lines 178-187: bot.send_message raises, the except of the task logs it
SendFail ==
    /\ pc = "send"
    /\ \E d \in SendDurations : clock' = clock + d
    /\ log' = Append(log, [task |-> k, outcome |-> "failed",
                           variant |-> Evaluate(tasks[k], check_time).variant])
    /\ k' = k + 1
    /\ pc' = "tasks"
    /\ UNCHANGED <<parserVars, clock_us, configVars, last_check_time, last_check_us, tickVars,
                   check_time, tasks, ticks, evaluated, past, sent, failures, wake_at, reply>>

\* lines 207-212: a recovery run is over, the for loop goes on
NextRun ==
    /\ pc = "tasks"
    /\ k > Len(tasks)
    /\ i <= missed_checks
    /\ i' = i + 1
    /\ pc' = "pipeline"
    /\ UNCHANGED <<parserVars, clock, clock_us, configVars, last_check_time, last_check_us, now,
                   now_us, next_check, missed_checks, check_time, tasks, k, ticks, evaluated,
                   past, sent, log, failures, wake_at, reply>>

\* line 219 and scheduler lines 234-236: the run for now is over; asyncio.sleep is due
\* to return at next_check (microsecond 0), or at once when sleep_duration is not positive
TickDone ==
    /\ pc = "tasks"
    /\ k > Len(tasks)
    /\ i > missed_checks
    /\ last_check_time' = now
    /\ last_check_us' = now_us
    /\ wake_at' = Latest(<<clock, clock_us>>, <<next_check, 0>>)
    /\ pc' = "sleep"
    /\ UNCHANGED <<parserVars, clock, clock_us, configVars, tickVars, check_time, tasks, k,
                   ticks, evaluated, past, sent, log, failures, reply>>

\* scheduler line 236: asyncio.sleep(sleep_duration) returns, after the instant it is
\* due and after the last instant the clock has shown
Sleep ==
    /\ pc = "sleep"
    /\ \E d \in Overshoots :
           LET from == Latest(<<clock, clock_us>>, wake_at)
               wake == Later(from[1], from[2], d)
           IN  clock' = wake[1] /\ clock_us' = wake[2]
    /\ pc' = "loop"
    /\ UNCHANGED <<parserVars, configVars, last_check_time, last_check_us, tickVars, check_time,
                   tasks, k, ticks, evaluated, past, sent, log, failures, wake_at, reply>>

\* BackoffSleep without the except of line 238: the exception ends the scheduler task
BackoffExits ==
    /\ pc = "except"
    /\ pc' = "exited"
    /\ UNCHANGED <<parserVars, clock, clock_us, configVars, last_check_time, last_check_us,
                   tickVars, check_time, tasks, k, ticks, evaluated, past, sent, log, failures, wake_at,
                   reply>>

\* scheduler line 240: asyncio.sleep(10) returns, after the instant it is due and after
\* the last instant the clock has shown
BackoffSleep ==
    /\ pc = "except"
    /\ \E d \in Overshoots :
           LET from == Latest(<<clock, clock_us>>, wake_at)
               wake == Later(from[1], from[2], d)
           IN  clock' = wake[1] /\ clock_us' = wake[2]
    /\ pc' = "loop"
    /\ UNCHANGED <<parserVars, configVars, last_check_time, last_check_us, tickVars, check_time,
                   tasks, k, ticks, evaluated, past, sent, log, failures, wake_at, reply>>

----------------------------------------------------------------------------
(* Specifications                                                           *)

\* the scheduler from process start
Init ==
    /\ line = <<>>
    /\ parsed = NotParsed
    /\ \E start \in StartInstants : clock = start[1] /\ clock_us = start[2]
    /\ interval \in Intervals
    /\ default_time = T0903
    /\ vault = SchedVault
    /\ show_path_in_message = TRUE
    /\ last_check_time = NoTime
    /\ last_check_us = 0
    /\ pc = "loop"
    /\ now = 0
    /\ now_us = 0
    /\ next_check = 0
    /\ wake_at = <<0, 0>>
    /\ missed_checks = 0
    /\ i = 1
    /\ check_time = 0
    /\ tasks = <<>>
    /\ k = 1
    /\ ticks = 0
    /\ evaluated = <<>>
    /\ past = {}
    /\ sent = <<>>
    /\ log = <<>>
    /\ failures = 0
    /\ reply = NoReply

\* show_scheduled_tasks lines 277-296: is_today of one task; today is the date read at
\* line 265 and read the instant <<whole seconds, microseconds>> the clock shows at line
\* 293, where the task's time, which has second 0 and microsecond 0, is compared with
\* datetime.now().time()
IsToday(task, today, read) ==
    LET dates     == task.data.dates
        task_time == strptime_time(task.data.time) * SecondsPerMinute
    IN  \/ dates[HOURGLASS] # <<>> /\ strptime_date(dates[HOURGLASS]) = today
        \/ dates[CALENDAR] # <<>> /\ strptime_date(dates[CALENDAR]) = today
        \/ /\ dates[HOURGLASS] = <<>> /\ dates[CALENDAR] = <<>>
           /\ strptime_time(task.data.time) # NoClockTime
           /\ \/ task_time > read[1] % SecondsPerDay
              \/ task_time = read[1] % SecondsPerDay /\ read[2] = 0

\* is_today of task n of the scan, for the clock readings rs of one call: rs[1] is the
\* reading of line 265, rs[n + 1] the reading of line 293 in the iteration of task n
IsTodayAt(ts, rs, n) == IsToday(ts[n], DateOf(rs[1][1]), rs[n + 1])

\* show_scheduled_tasks lines 272-308: the entries of the response from task n on, in
\* scan order
RECURSIVE Response(_, _, _)
Response(ts, rs, n) ==
    IF n > Len(ts) THEN <<>>
    ELSE (IF IsTodayAt(ts, rs, n)
          THEN <<[time |-> ts[n].data.time, task |-> ts[n].data.task,
                  file |-> IF show_path_in_message THEN ts[n].file ELSE NoFile]>>
          ELSE <<>>) \o Response(ts, rs, n + 1)

\* show_scheduled_tasks line 301: relative_to raises for a task of today; nothing in the
\* handler catches it and message.reply is not called
ResponseRaises(ts, rs) ==
    \E n \in 1..Len(ts) : IsTodayAt(ts, rs, n) /\ RelativeToRaises(ts[n])

\* the instants the clock can show during a query handled in the present await of the
\* scheduler: the instant the clock has shown last, and any instant after it. The
\* handler runs to its await of line 315 before the scheduler resumes, so its readings
\* may be later than the instant a pending sleep is due to return
QueryInstants ==
    {<<clock, clock_us>>} \cup {q \in QueryTimes : NotBefore(q, <<clock, clock_us>>)}

\* the clock readings of one call for a scan of n tasks: line 265, then line 293 once
\* per task, none before the one before it
ClockReadings(n) ==
    {rs \in [1..(n + 1) -> QueryInstants] : \A j \in 1..n : NotBefore(rs[j + 1], rs[j])}

\* what the handler leaves after a scan that returned: the response given to
\* message.reply, or the exception of relative_to, and the last clock reading
Reply(ts, rs) ==
    IF ResponseRaises(ts, rs) THEN [outcome |-> "raise", today |-> <<>>, read |-> rs[Len(rs)]]
    ELSE [outcome |-> "reply", today |-> Response(ts, rs, 1), read |-> rs[Len(rs)]]

\* what the handler leaves when the scan raises: line 264 awaits check_files outside any
\* try, the clock is not read and message.reply is not called
ScanRaised == [outcome |-> "raise", today |-> <<>>, read |-> <<clock, clock_us>>]

\* the outcomes of one call for the scan ts
Replies(ts) == {ScanRaised} \cup {Reply(ts, rs) : rs \in ClockReadings(Len(ts))}

\* ShowScheduledTasks with a handler that also stores the instant of the query in
\* check_and_notify.last_check_time
ShowScheduledTasksWritesLastCheck ==
    /\ pc \in {"send", "sleep", "except"}
    /\ \E r \in Replies(check_files(vault, default_time)) :
           /\ reply' = [tick |-> ticks, at |-> pc, outcome |-> r.outcome, today |-> r.today]
           /\ clock' = r.read[1]
           /\ clock_us' = r.read[2]
           /\ last_check_time' = r.read[1]
           /\ last_check_us' = r.read[2]
    /\ UNCHANGED <<parserVars, configVars, pc, tickVars, check_time, tasks, k, ticks,
                   evaluated, past, sent, log, failures, wake_at>>

\* show_scheduled_tasks lines 263-314, up to its await of message.reply: the handler
\* runs while the scheduler coroutine is suspended in bot.send_message or asyncio.sleep;
\* the scan of line 264 returns or raises as the scan of the scheduler does; the clock
\* is read at line 265 and again at line 293 for each task, and may have moved on
\* between two readings
ShowScheduledTasks ==
    /\ pc \in {"send", "sleep", "except"}
    /\ \E r \in Replies(check_files(vault, default_time)) :
           /\ reply' = [tick |-> ticks, at |-> pc, outcome |-> r.outcome, today |-> r.today]
           /\ clock' = r.read[1]
           /\ clock_us' = r.read[2]
    /\ UNCHANGED <<parserVars, configVars, last_check_time, last_check_us, pc, tickVars,
                   check_time, tasks, k, ticks, evaluated, past, sent, log, failures, wake_at>>

Next ==
    \/ TickStart
    \/ ScanOk
    \/ ScanRaise
    \/ EvalTask
    \/ SendOk
    \/ SendFail
    \/ NextRun
    \/ TickDone
    \/ Sleep
    \/ BackoffSleep

Spec == Init /\ [][Next]_vars

\* the scheduler under the fairness of the event loop: a sleep that is due returns and
\* the coroutine that can go on does
FairSpec == Spec /\ WF_vars(Sleep) /\ WF_vars(BackoffSleep) /\ WF_vars(TickStart)

\* one pipeline run for now, in a tick without recovery pass, on vaults of EvalLines
InitEval ==
    /\ line = <<>>
    /\ parsed = NotParsed
    /\ clock \in EvalInstants
    /\ clock_us = 0
    /\ interval = 60
    /\ default_time \in EvalDefaults
    /\ vault \in EvalVaults
    /\ show_path_in_message \in BOOLEAN
    /\ last_check_time = clock - interval
    /\ last_check_us = 0
    /\ pc = "pipeline"
    /\ now = clock
    /\ now_us = 0
    /\ next_check = NextCheck(clock)
    /\ wake_at = <<0, 0>>
    /\ missed_checks = 0
    /\ i = 1
    /\ check_time = 0
    /\ tasks = <<>>
    /\ k = 1
    /\ ticks = 1
    /\ evaluated = <<>>
    /\ past = {}
    /\ sent = <<>>
    /\ log = <<>>
    /\ failures = 0
    /\ reply = NoReply

NextEval ==
    \/ ScanOk
    \/ EvalTask
    \/ SendOk
    \/ SendFail
    \/ TickDone

SpecEval == InitEval /\ [][NextEval]_vars

\* the scheduler with interval 60 on a vault with two tasks for the same minute
InitDeliver ==
    /\ line = <<>>
    /\ parsed = NotParsed
    /\ \E start \in DeliverStarts : clock = start[1] /\ clock_us = start[2]
    /\ interval = 60
    /\ default_time = T0903
    /\ vault = DeliverVault
    /\ show_path_in_message = TRUE
    /\ last_check_time = NoTime
    /\ last_check_us = 0
    /\ pc = "loop"
    /\ now = 0
    /\ now_us = 0
    /\ next_check = 0
    /\ wake_at = <<0, 0>>
    /\ missed_checks = 0
    /\ i = 1
    /\ check_time = 0
    /\ tasks = <<>>
    /\ k = 1
    /\ ticks = 0
    /\ evaluated = <<>>
    /\ past = {}
    /\ sent = <<>>
    /\ log = <<>>
    /\ failures = 0
    /\ reply = NoReply

SpecDeliver == InitDeliver /\ [][Next]_vars

\* the scheduler and the query handler of the dispatcher, interval 60
InitQuery ==
    /\ line = <<>>
    /\ parsed = NotParsed
    /\ \E run \in QueryRuns :
           /\ clock = run[1]
           /\ clock_us = run[2]
           /\ vault = run[3]
           /\ show_path_in_message = run[4]
    /\ interval = 60
    /\ default_time = T0903
    /\ last_check_time = NoTime
    /\ last_check_us = 0
    /\ pc = "loop"
    /\ now = 0
    /\ now_us = 0
    /\ next_check = 0
    /\ wake_at = <<0, 0>>
    /\ missed_checks = 0
    /\ i = 1
    /\ check_time = 0
    /\ tasks = <<>>
    /\ k = 1
    /\ ticks = 0
    /\ evaluated = <<>>
    /\ past = {}
    /\ sent = <<>>
    /\ log = <<>>
    /\ failures = 0
    /\ reply = NoReply

NextQuery ==
    \/ Next
    \/ ShowScheduledTasks

SpecQuery == InitQuery /\ [][NextQuery]_vars

\* one scan of an explicit file list
InitScan ==
    /\ line = <<>>
    /\ parsed = NotParsed
    /\ clock = At(0, 9, 0, 1)
    /\ clock_us = 0
    /\ interval = 60
    /\ default_time = T0800
    /\ vault \in ScanVaults
    /\ show_path_in_message = TRUE
    /\ last_check_time = clock - interval
    /\ last_check_us = 0
    /\ pc = "pipeline"
    /\ now = clock
    /\ now_us = 0
    /\ next_check = NextCheck(clock)
    /\ wake_at = <<0, 0>>
    /\ missed_checks = 0
    /\ i = 1
    /\ check_time = 0
    /\ tasks = <<>>
    /\ k = 1
    /\ ticks = 1
    /\ evaluated = <<>>
    /\ past = {}
    /\ sent = <<>>
    /\ log = <<>>
    /\ failures = 0
    /\ reply = NoReply

NextScan == ScanOk

SpecScan == InitScan /\ [][NextScan]_vars

\* parse_task_line on the lines of ParseLines
InitParse ==
    /\ line \in ParseLines
    /\ parsed = NotParsed
    /\ clock = 0
    /\ clock_us = 0
    /\ interval = 60
    /\ default_time \in ParseDefaults
    /\ vault = <<>>
    /\ show_path_in_message = TRUE
    /\ last_check_time = NoTime
    /\ last_check_us = 0
    /\ pc = "parse"
    /\ now = 0
    /\ now_us = 0
    /\ next_check = 0
    /\ wake_at = <<0, 0>>
    /\ missed_checks = 0
    /\ i = 1
    /\ check_time = 0
    /\ tasks = <<>>
    /\ k = 1
    /\ ticks = 0
    /\ evaluated = <<>>
    /\ past = {}
    /\ sent = <<>>
    /\ log = <<>>
    /\ failures = 0
    /\ reply = NoReply

NextParse == ParseLine

SpecParse == InitParse /\ [][NextParse]_vars

----------------------------------------------------------------------------
(* Claims                                                                   *)

\* the tick has begun all its runs and finished the last one (line 219 is next)
TickComplete == pc = "tasks" /\ k > Len(tasks) /\ i > missed_checks

\* the tick is under way and last_check_time still holds the value T of its start
InTick == pc \in {"pipeline", "tasks", "send", "except"}

\* elapsed = now - T for the stored last_check_time T, in microseconds
Elapsed == TimeDiff(now, now_us, last_check_time, last_check_us)

\* the whole seconds of T + 1*I, ..., T + floor(elapsed / I)*I, then those of now
CatchUpInstants ==
    [n \in 1..(Elapsed \div (interval * MicrosPerSecond)) |-> last_check_time + n * interval]
        \o <<now>>

\* the tick is over: it reached line 219, or an exception of the scan left it
TickEnded == TickComplete \/ pc = "except"

\* C1: in a tick with elapsed = now - T > 1.5 * interval the pipeline is run for
\* T + I, T + 2I, ..., T + floor(elapsed / I) * I in ascending order and then once more
\* for now: the runs begun so far are the first of these, and a tick that is over has
\* run all of them; for interval 60 and now = T + 185 these are T + 60, T + 120,
\* T + 180, now
C1_CatchUpOrder ==
    (InTick /\ Elapsed > Threshold(interval)) =>
        /\ evaluated = Take(CatchUpInstants, Len(evaluated))
        /\ TickEnded => evaluated = CatchUpInstants
        /\ (TickEnded /\ interval = 60 /\ now = last_check_time + 185) =>
               evaluated = <<last_check_time + 60, last_check_time + 120,
                             last_check_time + 180, now>>

\* C2: at the end of every tick, successful or failed, last_check_time equals the tick's now
C2_LastCheckIsNowAtTickEnd ==
    pc \in {"sleep", "except"} => (last_check_time = now /\ last_check_us = now_us)

\* C3: in a tick that follows another one, every calendar minute after the minute of the
\* stored last_check_time up to the minute of now is the minute of an evaluated instant
\* (stated for the runs of the scheduler in which no tick raised)
C3_NoMinuteSkipped ==
    (TickComplete /\ ticks >= 2 /\ failures = 0) =>
        \A m \in (MinuteOf(last_check_time) + 1)..MinuteOf(now) :
            \E n \in 1..Len(evaluated) : MinuteOf(evaluated[n]) = m

\* C4: no task is delivered twice for the same calendar date and hour:minute
\* (stated for the runs of the scheduler in which no tick raised)
C4_OncePerMinute ==
    failures = 0 => \A a, b \in 1..Len(sent) :
        (a < b /\ sent[a].file = sent[b].file /\ sent[a].line = sent[b].line)
            => MinuteOf(sent[a].at) # MinuteOf(sent[b].at)

\* the pipeline run for check_time has handled all its tasks
RunComplete == pc = "tasks" /\ k > Len(tasks)

\* the task of log entry n, its dates and whether its time is the minute of check_time
LoggedTask(n) == tasks[log[n].task]

ReminderDate(n) == LoggedTask(n).data.dates[HOURGLASS]

DueDate(n) == LoggedTask(n).data.dates[CALENDAR]

ReminderIsToday(n) ==
    ReminderDate(n) # <<>> /\ strptime_date(ReminderDate(n)) = DateOf(check_time)

DueIsToday(n) ==
    DueDate(n) # <<>> /\ strptime_date(DueDate(n)) = DateOf(check_time)

TimeMatches(n) == strptime_time(LoggedTask(n).data.time) = TimeOf(check_time)

\* the deliveries of the current run for the task of log entry n
Deliveries(n) ==
    {a \in 1..Len(sent) : /\ sent[a].tick = ticks /\ sent[a].run = i
                          /\ sent[a].file = LoggedTask(n).file
                          /\ sent[a].line = LoggedTask(n).line}

\* C5: a task whose time is the minute of the reference instant gets at most one
\* notification per run: pre-notify if its reminder date is the reference date (whatever
\* its due date), else due if its due date is the reference date, else plain exactly
\* when it has no date
C5_VariantPrecedence ==
    pc \in {"tasks", "send"} =>
        \A n \in 1..Len(log) :
            /\ log[n].task = n
            /\ Cardinality(Deliveries(n)) <= 1
            /\ \A a \in Deliveries(n) : sent[a].message.variant = log[n].variant
            /\ TimeMatches(n) =>
                /\ ReminderIsToday(n) => log[n].variant = "pre"
                /\ (~ReminderIsToday(n) /\ DueIsToday(n)) => log[n].variant = "due"
                /\ (~ReminderIsToday(n) /\ ~DueIsToday(n)) =>
                       log[n].variant = (IF ReminderDate(n) = <<>> /\ DueDate(n) = <<>>
                                         THEN "plain" ELSE "none")

C5_Witness ==
    /\ pc = "tasks"
    /\ \E n \in 1..Len(log) :
        /\ log[n].variant = "pre"
        /\ log[n].outcome = "sent"
        /\ DueDate(n) # <<>>
        /\ ~DueIsToday(n)

\* C6: a task gets no notification at a reference instant whose hour:minute is not the
\* task's, nor when it has a reminder or due date and none of them is the reference date
C6_NoNotificationOffSchedule ==
    pc \in {"tasks", "send"} =>
        \A n \in 1..Len(log) :
            (\/ ~TimeMatches(n)
             \/ /\ (ReminderDate(n) # <<>> \/ DueDate(n) # <<>>)
                /\ ~ReminderIsToday(n)
                /\ ~DueIsToday(n))
                => /\ log[n].outcome \in {"none", "error"}
                   /\ Deliveries(n) = {}

C6_Witness ==
    /\ RunComplete
    /\ \E n \in 1..Len(log) :
        /\ TimeMatches(n)
        /\ ReminderDate(n) # <<>>
        /\ DueDate(n) # <<>>
        /\ log[n].outcome = "none"
    /\ \E n \in 1..Len(log) :
        /\ ~TimeMatches(n)
        /\ strptime_time(LoggedTask(n).data.time) # NoClockTime
        /\ log[n].outcome = "none"

\* C7: in one pipeline run a task whose evaluation raises or whose delivery fails gives
\* no notification and the run goes on: every task of the scanned list is handled, in
\* order, and every task that is due is handed to the sender
C7_TaskErrorIsolated ==
    pc \in {"tasks", "send"} =>
        /\ Len(log) = k - 1
        /\ \A n \in 1..Len(log) :
            /\ log[n].task = n
            /\ log[n].outcome \in {"error", "failed"} => Deliveries(n) = {}
            /\ (strptime_time(LoggedTask(n).data.time) = NoClockTime) => log[n].outcome = "error"
            /\ Evaluate(LoggedTask(n), check_time).outcome = "message"
                   => log[n].outcome \in {"sent", "failed"}
            /\ log[n].outcome = "sent" => Cardinality(Deliveries(n)) = 1
        /\ RunComplete => Len(log) = Len(tasks)

C7_Witness ==
    /\ RunComplete
    /\ \E a, b \in 1..Len(log) :
        /\ a < b
        /\ strptime_time(LoggedTask(a).data.time) = NoClockTime
        /\ log[a].outcome = "error"
        /\ log[b].outcome = "sent"

\* C8: a tick that ended, by returning or by raising, is followed by another tick: the
\* scheduler sleeps (the backoff after an exception) and calls check_and_notify again
\* (MaxTicks bounds the number of ticks of a behaviour)
C8_TickFollowsTick ==
    (pc \in {"sleep", "except"} /\ ticks < MaxTicks) ~> (pc = "pipeline")

C8_Witness ==
    /\ pc = "pipeline"
    /\ ticks = 2
    /\ failures = 1

\* the shape H:MM or HH:MM
TimeShape(t) ==
    /\ Len(t) \in {4, 5}
    /\ t[Len(t) - 2] = ":"
    /\ \A n \in (1..Len(t)) \ {Len(t) - 2} : t[n] \in Digits

\* the token captured for the clock glyph, and the inline time prefix of the first
\* text segment, of the line being parsed
ClockValue == Captured(line).elements[CLOCK]

InlinePrefix == InlineTime(Captured(line).task_text[1])

\* C9: the time of a record is the clock-glyph value if it has the shape H:MM or HH:MM,
\* else the inline time prefix of the first text segment, else the default as it is;
\* 'Buy milk CLOCK 09:15 CALENDAR 2025-03-01' gives 09:15, '10:30 Call Bob' gives 10:30,
\* 'Pay rent' gives the default
C9_TimeResolution ==
    (pc = "parsed" /\ parsed.kind = "record") =>
        /\ parsed.time = (IF TimeShape(ClockValue) THEN ClockValue
                          ELSE IF InlinePrefix # <<>> THEN InlinePrefix
                          ELSE default_time)
        /\ line = LineBuyMilk => parsed.time = T0915
        /\ line = LineCallBob => parsed.time = W1030
        /\ line = LinePayRent => parsed.time = default_time

C9_Witness ==
    /\ pc = "parsed"
    /\ parsed.kind = "record"
    /\ TimeShape(ClockValue)
    /\ InlinePrefix # <<>>
    /\ InlinePrefix # ClockValue
    /\ parsed.time = ClockValue

\* C10: a record is returned only for a line that, without its comment and surrounding
\* whitespace, starts with '- [ ]' followed by whitespace and has a non-empty cleaned text
C10_RecordOnlyForChecklistLine ==
    (pc = "parsed" /\ parsed.kind = "record") =>
        /\ StartsWith(CleanLine(line), ChecklistPrefix)
        /\ Len(CleanLine(line)) > Len(ChecklistPrefix)
        /\ CleanLine(line)[Len(ChecklistPrefix) + 1] \in Whitespace
        /\ parsed.task # <<>>

----------------------------------------------------------------------------
(* The line being parsed, seen as whitespace-separated tokens                *)

\* s with a space on both sides of every glyph
RECURSIVE PadGlyphs(_)
PadGlyphs(s) ==
    IF s = <<>> THEN <<>>
    ELSE IF Head(s) \in Glyphs THEN <<" ", Head(s), " ">> \o PadGlyphs(Tail(s))
    ELSE <<Head(s)>> \o PadGlyphs(Tail(s))

\* the maximal runs of non-whitespace characters of s, in order
RECURSIVE Tokens(_)
Tokens(s) ==
    LET t == lstrip(s)
    IN  IF t = <<>> THEN <<>> ELSE <<Word(t)>> \o Tokens(Drop(t, Len(Word(t))))

\* the tokens of the content of the line: what follows the checklist prefix, up to the '#'
LineTokens == Tokens(PadGlyphs(RemovePrefix(CleanLine(line))))

IsChecklistLine == MatchesPrefix(CleanLine(line))

GlyphToken(t) == Len(t) = 1 /\ t[1] \in Glyphs

\* a token made solely of digits, colons and hyphens
NumericToken(t) == t # <<>> /\ \A n \in 1..Len(t) : t[n] \in Digits \cup {":", "-"}

\* the positions of the occurrences of glyph g that are followed by a numeric token
Captures(g) ==
    LET toks == LineTokens
    IN  {p \in 1..(Len(toks) - 1) : toks[p] = <<g>> /\ NumericToken(toks[p + 1])}

\* the positions of the tokens captured for some glyph
CapturedPositions == {p + 1 : p \in UNION {Captures(g) : g \in Glyphs}}

\* the positions of the tokens that follow a glyph and are not numeric
LeftPositions ==
    LET toks == LineTokens
    IN  {p + 1 : p \in {q \in 1..(Len(toks) - 1) :
                            /\ GlyphToken(toks[q])
                            /\ ~GlyphToken(toks[q + 1])
                            /\ ~NumericToken(toks[q + 1])}}

Largest(S) == CHOOSE p \in S : \A q \in S : q <= p

\* the token of the last capture of glyph g, the empty sequence when g captures nothing
LastCaptured(g) ==
    LET caps == Captures(g)
    IN  IF caps = {} THEN <<>> ELSE LineTokens[Largest(caps) + 1]

\* the line starts its content with a token of the shape H:MM or HH:MM
HasInlineTime == LineTokens # <<>> /\ TimeShape(LineTokens[1])

\* the positions of the tokens that stay in the text: not a glyph, not captured, not
\* the inline time
TextPositions ==
    LET toks     == LineTokens
        captured == CapturedPositions
    IN  {p \in 1..Len(toks) :
            /\ ~GlyphToken(toks[p])
            /\ p \notin captured
            /\ ~(p = 1 /\ TimeShape(toks[1]))}

\* the time of a record whose clock glyph gives no valid time
FallbackTime == IF HasInlineTime THEN LineTokens[1] ELSE default_time

TokenSet(s) == LET toks == Tokens(s) IN {toks[n] : n \in 1..Len(toks)}

\* C11: on a checklist line a non-numeric token after a glyph stays in the text and a
\* glyph that captures nothing leaves its field unset; a captured token that is not a
\* time (for the clock) or not a date (for the date glyphs) only leaves the field unset;
\* the line gives a record exactly when some text remains
C11_MalformedMarkerValue ==
    (pc = "parsed" /\ IsChecklistLine) =>
        /\ parsed.kind = (IF TextPositions # {} THEN "record" ELSE "None")
        /\ parsed.kind = "record" =>
            /\ LET toks == LineTokens
                   text == TokenSet(parsed.task)
               IN  \A p \in LeftPositions : toks[p] \in text
            /\ \A g \in DateGlyphs :
                   (Captures(g) = {} \/ ~is_valid_date(LastCaptured(g)))
                       => parsed.dates[g] = <<>>
            /\ (Captures(CLOCK) = {} \/ ~TimeShape(LastCaptured(CLOCK)))
                   => parsed.time = FallbackTime

C11_Witness ==
    /\ pc = "parsed"
    /\ parsed.kind = "record"
    /\ LeftPositions # {}
    /\ \E g \in DateGlyphs : Captures(g) # {} /\ parsed.dates[g] = <<>>
    /\ Captures(CLOCK) = {}

----------------------------------------------------------------------------
(* The scan of an explicit file list                                         *)

ScanDone == pc = "tasks"

\* the file is read to its end without an exception
ReadsWhole(file) ==
    /\ file.exists
    /\ file.fail_at = 0
    /\ \A n \in 1..Len(file.lines) : parse_task_line(file.lines[n], default_time).kind # "raise"

\* the scan result holds the record of line n of file f
Scanned(f, n) ==
    /\ n <= Len(vault[f].lines)
    /\ \E m \in 1..Len(tasks) :
           tasks[m] = [file |-> f, line |-> n,
                       data |-> parse_task_line(vault[f].lines[n], default_time)]

\* C12: a configured file that does not exist contributes no record; every record line
\* of every other file that reads to its end is in the result; the result is ordered by
\* position in the file list, then by ascending line number
C12_MissingFileSkipped ==
    ScanDone =>
        /\ \A m \in 1..Len(tasks) : vault[tasks[m].file].exists
        /\ \A f \in 1..Len(vault) :
               ReadsWhole(vault[f]) =>
                   \A n \in 1..Len(vault[f].lines) :
                       parse_task_line(vault[f].lines[n], default_time).kind = "record"
                           => Scanned(f, n)
        /\ \A a, b \in 1..Len(tasks) :
               a < b => \/ tasks[a].file < tasks[b].file
                        \/ /\ tasks[a].file = tasks[b].file
                           /\ tasks[a].line < tasks[b].line

C12_Witness ==
    /\ ScanDone
    /\ \E f, g, h \in 1..Len(vault) :
           /\ f < g /\ g < h
           /\ ~vault[g].exists
           /\ Scanned(f, 1) /\ Scanned(f, 3)
           /\ Scanned(h, 1)

\* C13: a file whose read fails contributes no record, also when earlier lines of it were
\* already parsed, and the files after it are still scanned
C13_FailedFileContributesNothing ==
    ScanDone =>
        /\ \A m \in 1..Len(tasks) : vault[tasks[m].file].fail_at = 0
        /\ \A f \in 1..Len(vault) :
               ReadsWhole(vault[f]) =>
                   \A n \in 1..Len(vault[f].lines) :
                       parse_task_line(vault[f].lines[n], default_time).kind = "record"
                           => Scanned(f, n)

\* the part of C13 that the code keeps: a file that cannot be opened contributes no record
\* and the files after a failed file are still scanned
C13_LaterFilesStillScanned ==
    ScanDone =>
        /\ \A m \in 1..Len(tasks) : vault[tasks[m].file].fail_at # 1
        /\ \A f \in 1..Len(vault) :
               ReadsWhole(vault[f]) =>
                   \A n \in 1..Len(vault[f].lines) :
                       parse_task_line(vault[f].lines[n], default_time).kind = "record"
                           => Scanned(f, n)

----------------------------------------------------------------------------
(* Parsing the line rebuilt from a record                                    *)

\* the line is '- [ ]' followed by whitespace and more
WellFormedChecklistLine ==
    /\ Len(CleanLine(line)) > Len(ChecklistPrefix)
    /\ MatchesPrefix(CleanLine(line))
    /\ CleanLine(line)[Len(ChecklistPrefix) + 1] \in Whitespace

\* the record of the line rebuilt from the record r: '- [ ] ' and r's text, parsed with
\* r's time as the default time
Reparsed == parse_task_line(PrefixSpace \o parsed.task, parsed.time)

\* the text of the record begins with a token of the shape H:MM or HH:MM
TextStartsWithTime == Tokens(parsed.task) # <<>> /\ TimeShape(Tokens(parsed.task)[1])

\* C14 as stated: parsing the line rebuilt from a record gives a record with the same
\* text and the same time
C14_ParseIdempotent ==
    (pc = "parsed" /\ parsed.kind = "record" /\ WellFormedChecklistLine) =>
        /\ Reparsed.kind = "record"
        /\ Reparsed.task = parsed.task
        /\ Reparsed.time = parsed.time

\* C14 amended: parsing the line rebuilt from a record whose text does not begin with a
\* time token gives a record with the same text and the same time; when the text begins
\* with a time token, the second parse takes that token out of the text as the time
C14_ParseIdempotentUnlessTimeFirst ==
    (pc = "parsed" /\ parsed.kind = "record" /\ WellFormedChecklistLine) =>
        IF ~TextStartsWithTime
        THEN /\ Reparsed.kind = "record"
             /\ Reparsed.task = parsed.task
             /\ Reparsed.time = parsed.time
        ELSE \/ Reparsed.kind = "None"
             \/ /\ Reparsed.kind = "record"
                /\ Reparsed.time = Tokens(parsed.task)[1]
                /\ Tokens(Reparsed.task) = Tail(Tokens(parsed.task))

C14_Witness ==
    /\ pc = "parsed"
    /\ parsed.kind = "record"
    /\ WellFormedChecklistLine
    /\ ~TextStartsWithTime
    /\ Captures(CLOCK) # {}
    /\ HasInlineTime
    /\ parsed.time # default_time
    /\ parsed.time # LineTokens[1]
    /\ Reparsed.task = parsed.task
    /\ Reparsed.time = parsed.time

----------------------------------------------------------------------------
(* The order of the deliveries of a tick                                     *)

\* delivery a comes before delivery b in the scan order of the vault
ScanOrder(a, b) ==
    \/ sent[a].file < sent[b].file
    \/ /\ sent[a].file = sent[b].file
       /\ sent[a].line < sent[b].line

\* C15: while a send is pending every earlier task of the run has its outcome (sent,
\* failed, error or none) and nothing else is in flight; the deliveries of a tick are in
\* the order of its runs, so in ascending order of reference instant (recovery instants,
\* then now), and the deliveries of one run are in scan order
C15_SequentialOrderedDelivery ==
    /\ pc = "send" => /\ Len(log) = k - 1
                      /\ \A n \in 1..Len(log) : log[n].task = n
                      /\ \A a \in 1..Len(sent) :
                             (sent[a].tick = ticks /\ sent[a].run = i)
                                 => \E n \in 1..Len(log) :
                                        /\ log[n].outcome = "sent"
                                        /\ tasks[log[n].task].line = sent[a].line
    /\ \A a, b \in 1..Len(sent) :
           a < b =>
               /\ sent[a].tick <= sent[b].tick
               /\ sent[a].tick = sent[b].tick =>
                      /\ sent[a].run <= sent[b].run
                      /\ sent[a].at <= sent[b].at
                      /\ (sent[a].run < sent[b].run /\ sent[b].tick = ticks) =>
                             (sent[a].at < sent[b].at \/ sent[b].at = now)
                      /\ sent[a].run = sent[b].run =>
                             (sent[a].at = sent[b].at /\ ScanOrder(a, b))

C15_Witness ==
    /\ pc = "send"
    /\ \E a, b, c \in 1..Len(sent) :
           /\ a < b /\ b < c
           /\ sent[a].tick = ticks /\ sent[b].tick = ticks /\ sent[c].tick = ticks
           /\ sent[a].run < sent[b].run
           /\ sent[a].at < sent[b].at
           /\ sent[b].run = sent[c].run
           /\ sent[b].run <= missed_checks

----------------------------------------------------------------------------
(* Ticks without recovery pass                                               *)

\* C16: during the first tick last_check_time is now - interval and there is no recovery
\* run; in every tick with now - last_check_time <= 1.5 * interval there is no recovery
\* run, the only run begun is the run for now, and a tick that is over, by reaching line
\* 219 or by an exception, has begun it
C16_NoRecoveryWithinThreshold ==
    InTick =>
        /\ ticks = 1 => /\ last_check_time = now - interval
                        /\ last_check_us = now_us
                        /\ missed_checks = 0
        /\ Elapsed <= Threshold(interval) =>
               /\ missed_checks = 0
               /\ evaluated = Take(<<now>>, Len(evaluated))
               /\ TickEnded => evaluated = <<now>>

C16_Witness ==
    /\ TickComplete
    /\ ticks = 2
    /\ Cardinality(past) = 1
    /\ Elapsed > interval * MicrosPerSecond
    /\ Elapsed <= Threshold(interval)
    /\ evaluated = <<now>>

----------------------------------------------------------------------------
(* Several occurrences of one glyph                                          *)

\* the tokens of the line that stay in the text, in order, from position p on
TextTokensFrom(p) ==
    LET toks == LineTokens
        text == TextPositions
        from[q \in 1..(Len(toks) + 1)] ==
            IF q > Len(toks) THEN <<>>
            ELSE (IF q \in text THEN <<toks[q]>> ELSE <<>>) \o from[q + 1]
    IN  from[p]

\* C17: when a glyph occurs more than once with a numeric token after it, the token of
\* its last such occurrence decides the field, also when that token is then rejected (the
\* time falls back to the inline time or the default, the date stays unset), and the text
\* holds none of the captured tokens: its tokens are the other tokens of the line
C17_LastCaptureWins ==
    (pc = "parsed" /\ IsChecklistLine /\ parsed.kind = "record") =>
        /\ Cardinality(Captures(CLOCK)) >= 2 =>
               parsed.time = (IF TimeShape(LastCaptured(CLOCK)) THEN LastCaptured(CLOCK)
                              ELSE FallbackTime)
        /\ \A g \in DateGlyphs :
               Cardinality(Captures(g)) >= 2 =>
                   parsed.dates[g] = (IF is_valid_date(LastCaptured(g)) THEN LastCaptured(g)
                                      ELSE <<>>)
        /\ (\E g \in Glyphs : Cardinality(Captures(g)) >= 2) =>
               Tokens(parsed.task) = TextTokensFrom(1)

C17_Witness ==
    /\ pc = "parsed"
    /\ parsed.kind = "record"
    /\ Cardinality(Captures(CLOCK)) = 2
    /\ ~TimeShape(LastCaptured(CLOCK))
    /\ parsed.time = default_time
    /\ Len(Tokens(parsed.task)) = 1

----------------------------------------------------------------------------
(* The recovery pass in steady state                                         *)

\* the scheduler is about to start a tick on time (the sleep returned at next_check), the
\* tick before it completed its line 219 and had itself started on time (it was the
\* first tick of the process or began at an xx:xx:01), and no tick has raised
SteadyState ==
    /\ failures = 0
    /\ ticks >= 1
    /\ clock = next_check
    /\ last_check_time = now
    /\ last_check_us = now_us
    /\ (ticks = 1 \/ now % SecondsPerMinute = 1)

\* C18: a tick started in steady state triggers no recovery run, whatever the interval
C18_NoRecoveryInSteadyState ==
    [][(pc = "loop" /\ pc' = "pipeline" /\ SteadyState) => missed_checks' = 0]_vars

----------------------------------------------------------------------------
(* The instants of a recovery pass                                           *)

\* C19: every instant of a recovery run is later than the stored last_check_time, not
\* later than the now of the tick, and later than the instant of the recovery run before it
C19_RecoveryInstantsInRange ==
    InTick =>
        \A n \in 1..Len(evaluated) :
            n <= missed_checks =>
                /\ last_check_time < evaluated[n]
                /\ \/ evaluated[n] < now
                   \/ evaluated[n] = now /\ last_check_us <= now_us
                /\ n > 1 => evaluated[n - 1] < evaluated[n]

C19_Witness ==
    /\ InTick
    /\ missed_checks >= 2
    /\ Len(evaluated) > missed_checks
    /\ evaluated[missed_checks] = now
    /\ evaluated[1] = last_check_time + interval

----------------------------------------------------------------------------
(* The query handler and last_check_time                                     *)

\* the reference instants of a tick, from the last_check_time and the now of its start
ExpectedInstants ==
    IF Elapsed > Threshold(interval) THEN CatchUpInstants ELSE <<now>>

\* C20: last_check_time changes only in the scheduler's tick, at its first call (line 196)
\* and at its end (line 219), so not in a pipeline run; a step of the query handler leaves
\* last_check_time and the variables of the tick unchanged; and with queries interleaved
\* the runs of a tick are those fixed by last_check_time and now at its start
C20_OnlyTickWritesLastCheck ==
    /\ [][<<last_check_time, last_check_us>>' # <<last_check_time, last_check_us>> =>
              \/ pc = "loop" /\ pc' = "pipeline" /\ last_check_time = NoTime
              \/ pc = "tasks" /\ pc' = "sleep" /\ k > Len(tasks) /\ i > missed_checks]_vars
    /\ [][reply' # reply =>
              UNCHANGED <<last_check_time, last_check_us, pc, now, now_us, next_check,
                          missed_checks, i, check_time, tasks, k, ticks, evaluated, sent, log>>]_vars
    /\ [](InTick => /\ evaluated = Take(ExpectedInstants, Len(evaluated))
                    /\ TickComplete => evaluated = ExpectedInstants)

C20_Witness ==
    /\ TickComplete
    /\ missed_checks >= 1
    /\ reply.tick = ticks
    /\ reply.at = "send"
    /\ reply.today # <<>>
    /\ evaluated = ExpectedInstants

============================================================================
